---- MODULE Spec2Model ----
(***************************************************************************)
(* State-machine model of src/main.py: the /capture endpoint, the          *)
(* process-wide browser pool (app.state.browser_instances), the per-request *)
(* page pipeline of get_page_info and the lifespan teardown.               *)
(*                                                                         *)
(* Every await of the handler is a suspension point of the asyncio event   *)
(* loop, so every awaited backend call is one action: the code between two *)
(* awaits runs atomically.  The automation backend (Playwright) is the     *)
(* environment: the result of each backend call is an input of the action. *)
(***************************************************************************)
EXTENDS Integers, Sequences, FiniteSets, TLC

\* ------------------------------------------------------------------ bounds
\* Browsers that may ever be launched in one run of the process.
MaxLaunches == 2
\* Elements item_selector may match on a page.
MaxItems == 1
\* Characters of the text of an element.
MaxText == 2
\* Selectors in the list handed to get_content_by_selectors.
MaxSelectors == 2
\* <meta> tags of a page.
MaxTags == 2
\* <a> elements inside one item.
MaxLinks == 2
\* Byte counts looked at on either side of a unit threshold.
MaxDelta == 10

\* ------------------------------------------------------------- constants
\* main.py:192  the accepted values of RequestBody.browser
Variants == {"chromium", "firefox", "webkit"}
\* Values of RequestBody.browser that clients send in the model: two accepted
\* ones and one that is not accepted.
ReqBrowsers == {"chromium", "firefox", "opera"}
\* Keys the pool map is indexed with in the model (0 stands for "no entry").
BrowserNames == Variants \cup ReqBrowsers
\* The concurrent request handlers (coroutines of capture) of the model.
Handlers == {"h1", "h2"}
\* Python's None for an optional selector.
None == "None"

\* RequestBody with its nested SearchIn, ItemsConfig and BodyConfig.  A
\* selector of a disabled feature keeps its default (None).
RequestBody ==
    { c \in [ url : {"", "http://a"},
              browser : ReqBrowsers,
              screenshot : BOOLEAN,
              search : BOOLEAN,
              search_input_selector : {None, "#q"},
              items_enabled : BOOLEAN,
              item_selector : {None, ".item"},
              body_enabled : BOOLEAN ] :
        /\ (~c.search => c.search_input_selector = None)
        /\ (~c.items_enabled => c.item_selector = None) }

\* The request bodies of the concurrent scenario: a detail-page scrape with
\* search on chromium, a list-page scrape with screenshot on firefox, and the
\* bodies of an unknown engine that enable nothing.
ConcurrentBodies ==
    { c \in RequestBody :
        /\ c.url # ""
        /\ \/ /\ c.browser = "chromium"
              /\ c.search /\ c.search_input_selector # None
              /\ c.body_enabled /\ ~c.items_enabled /\ ~c.screenshot
           \/ /\ c.browser = "firefox"
              /\ ~c.search /\ ~c.body_enabled
              /\ c.items_enabled /\ c.item_selector # None /\ c.screenshot
           \/ /\ c.browser \notin Variants
              /\ ~c.search /\ ~c.body_enabled /\ ~c.items_enabled /\ ~c.screenshot }

NoRequest == [ url |-> "", browser |-> "chromium", screenshot |-> FALSE,
               search |-> FALSE, search_input_selector |-> None,
               items_enabled |-> FALSE, item_selector |-> None,
               body_enabled |-> FALSE ]

VARIABLES
    handlers,           \* the handlers that serve requests in this run
    bodies,             \* the request bodies clients send in this run
    lifespan,           \* "serving", "closing", "stopped", "failed"
    closeIdx,           \* position of the teardown loop in the pool's values
    browser_instances,  \* app.state.browser_instances: name -> browser id, 0 = no entry
    keys,               \* insertion order of the pool map's keys
    launched,           \* number of browsers launched so far (ids 1..launched)
    bstate,             \* browser id -> "unlaunched", "connected", "disconnected", "closed"
    bvariant,           \* browser id -> the engine it was launched as
    pc,                 \* handler -> the await it is suspended at
    request_data,       \* handler -> the RequestBody it serves
    browser,            \* handler -> local variable browser (0 = unset)
    page,               \* handler -> "none", "open", "closed"
    page_info,          \* handler -> the dict built so far
    outcome,            \* handler -> "none", "ok", "http400", "error"
    log,                \* handler -> backend calls made for the request, in order
    idleRes,            \* handler -> how the network-idle wait of the request ended
    itemsRes,           \* handler -> how get_items_content of the request ended
    lastAcquired,       \* history: engine -> the browser the latest acquisition of that
                        \* engine used, 0 if none or a browser of it disconnected since
    args,               \* the arguments of the helper function under test
    ret                 \* what the helper returned, Pending before the call

vars == << handlers, bodies, lifespan, closeIdx, browser_instances, keys,
           launched, bstate, bvariant, pc, request_data, browser, page,
           page_info, outcome, log, idleRes, itemsRes, lastAcquired, args, ret >>

poolVars == << browser_instances, keys, launched, bstate, bvariant, lastAcquired >>
teardownVars == << lifespan, closeIdx >>
\* What a run fixes at its start and the request handlers never touch.
scenarioVars == << handlers, bodies, args, ret >>

BrowserIds == 1..MaxLaunches

\* An empty dict, and a dict with one more key.
EmptyDict == [ k \in {} |-> 0 ]
Put(d, k, v) == (k :> v) @@ d


Range(f) == { f[i] : i \in DOMAIN f }

\* --------------------------------------------------- the code's decisions
\* Mutant of capture_rejects: the mode check of main.py:276-277 is missing.
capture_rejects_url_only(c) == c.url = ""

\* capture, main.py:274-277: the two checks made before get_page_info is called.
capture_rejects(c) == c.url = "" \/ (c.items_enabled /\ c.body_enabled)

\* Mutant of valid_browser: the engine name is not checked.
valid_browser_any(b) == TRUE

\* get_page_info, main.py:192: the membership test on the engine name.
valid_browser(b) == b \in Variants

\* Browser.is_connected() as read at main.py:204.
is_connected(b) == bstate[b] = "connected"

\* Mutant of wait_for_network_idle: asyncio.TimeoutError is not caught.
wait_for_network_idle_nocatch(res) == IF res = "idle" THEN "return" ELSE "raise"

\* wait_for_network_idle, main.py:59-63: asyncio.TimeoutError is caught and the
\* function returns; any other exception of the awaited call propagates.
wait_for_network_idle(res) == IF res \in {"idle", "timeout"} THEN "return" ELSE "raise"

\* Mutant of search_try: the try/except around fill and click is missing.
search_try_nocatch(res) == res

\* get_page_info, main.py:215-222: `except Exception` around fill and click.
search_try(res) == "continue"

\* get_items_content, main.py:84-120, by the way its waits and queries end:
\* the list of item dicts, PlaywrightTimeoutError of wait_for_selector, or another
\* exception of a backend call.
get_items_content(res, n) ==
    IF res = "found" THEN [ kind |-> "return", value |-> [ i \in 1..n |-> "item" ] ]
    ELSE IF res = "timeout" THEN [ kind |-> "PlaywrightTimeoutError", value |-> << >> ]
    ELSE [ kind |-> "Exception", value |-> << >> ]

\* Mutant of items_try: PlaywrightTimeoutError is not caught.
items_try_nocatch(result) == result

\* get_page_info, main.py:230-238: `except PlaywrightTimeoutError` gives [].
items_try(result) ==
    IF result.kind = "PlaywrightTimeoutError"
    THEN [ kind |-> "return", value |-> << >> ]
    ELSE result

\* get_page_info, main.py:226-251: the step that follows the mode check, the
\* items step, the body step and the screenshot step.
after_idle(c) ==
    IF c.items_enabled THEN "items"
    ELSE IF c.body_enabled THEN "body"
    ELSE IF c.screenshot THEN "screenshot" ELSE "close"
after_items(c) ==
    IF c.body_enabled THEN "body"
    ELSE IF c.screenshot THEN "screenshot" ELSE "close"
after_body(c) == IF c.screenshot THEN "screenshot" ELSE "close"

\* Mutant of next_pc: the steps in the order navigate, stabilize, search, meta.
next_pc_stabilize_first(step, c) ==
    CASE step = "new_page" -> "goto"
      [] step = "goto" -> "netidle"
      [] step = "netidle" -> IF c.search THEN "fill" ELSE "meta"
      [] step = "fill" -> "click"
      [] step = "click" -> "meta"
      [] step = "meta" -> after_idle(c)
      [] step = "items" -> after_items(c)
      [] step = "body" -> after_body(c)
      [] step = "screenshot" -> "close"
      [] step = "close" -> "done"

\* get_page_info, main.py:208-252: the await that follows each await.
next_pc(step, c) ==
    CASE step = "new_page" -> "goto"
      [] step = "goto" -> "meta"
      [] step = "meta" -> IF c.search THEN "fill" ELSE "netidle"
      [] step = "fill" -> "click"
      [] step = "click" -> "netidle"
      [] step = "netidle" -> after_idle(c)
      [] step = "items" -> after_items(c)
      [] step = "body" -> after_body(c)
      [] step = "screenshot" -> "close"
      [] step = "close" -> "done"

\* ------------------------------------------------- the helper functions
\* No helper is under test; a helper was not called yet.
NoCall == [ fn |-> "none" ]
Pending == [ kind |-> "pending" ]

\* Python's None where a text stands otherwise.  A text is a sequence of
\* characters; None is the one-element sequence of something that is no character.
Null == << None >>
Chars == {"a", " ", "\n"}
Whitespace == {" ", "\n", "\t", "\r"}
Texts == UNION { [ 1..n -> Chars ] : n \in 0..MaxText }

\* str.replace(old, new) for one-character old and new.
replace(s, old, new) == [ i \in 1..Len(s) |-> IF s[i] = old THEN new ELSE s[i] ]

\* str.strip(): whitespace is removed at both ends.
RECURSIVE lstrip(_)
lstrip(s) == IF s = << >> \/ s[1] \notin Whitespace THEN s ELSE lstrip(Tail(s))
RECURSIVE rstrip(_)
rstrip(s) ==
    IF s = << >> \/ s[Len(s)] \notin Whitespace THEN s
    ELSE rstrip(SubSeq(s, 1, Len(s) - 1))
strip(s) == rstrip(lstrip(s))

\* text_content().replace("\n", " ").strip(), main.py:96, 114, 129.
clean_text(t) == strip(replace(t, "\n", " "))

\* The selectors of the model and what the page does with one of them:
\* wait_for_selector times out, raises another error, or returns; after it
\* returned, query_selector gives an element with a text or gives None.
Selectors == {"h1", ".d"}
SelectorOutcomes ==
    { [ wait |-> "timeout", element |-> FALSE, text |-> << >> ],
      [ wait |-> "error", element |-> FALSE, text |-> << >> ],
      [ wait |-> "found", element |-> FALSE, text |-> << >> ] }
    \cup { [ wait |-> "found", element |-> TRUE, text |-> t ] : t \in Texts }
\* page.content(): the markup of the page, whitespace included.
Markup == << " ", "<html>", "\n" >>
Pages == [ dom : [ Selectors -> SelectorOutcomes ], content : {Markup} ]
SelectorLists == UNION { [ 1..n -> Selectors ] : n \in 0..MaxSelectors }

\* Mutant of selector_entries: a selector that timed out is left out.
selector_entries_skip_timeout(selector, out) ==
    IF out.wait = "found" /\ out.element
    THEN << [ selector |-> selector, content |-> clean_text(out.text) ] >>
    ELSE << >>

\* get_content_by_selectors, main.py:126-134: what one turn of the loop appends
\* to results when no error other than the timeout is raised.
selector_entries(selector, out) ==
    IF out.wait = "timeout"
    THEN << [ selector |-> selector, content |-> Null ] >>
    ELSE IF out.element
    THEN << [ selector |-> selector, content |-> clean_text(out.text) ] >>
    ELSE << >>

\* get_content_by_selectors, main.py:123-134: the loop over the selectors from
\* turn i on; waits lists the wait_for_selector calls made.
RECURSIVE selectors_loop(_, _, _, _, _)
selectors_loop(pg, selectors, i, results, waits) ==
    IF i > Len(selectors)
    THEN [ kind |-> "return", value |-> results, waits |-> waits ]
    ELSE LET selector == selectors[i]
             out == pg.dom[selector]
         IN IF out.wait = "error"
            THEN [ kind |-> "raise", value |-> << >>, waits |-> Append(waits, selector) ]
            ELSE selectors_loop(pg, selectors, i + 1,
                                results \o selector_entries(selector, out),
                                Append(waits, selector))

get_content_by_selectors(pg, selectors) == selectors_loop(pg, selectors, 1, << >>, << >>)

\* The base of the units, main.py:67-73.
Kilo == 1024

\* f"{size / unit:.2f}": the quotient in hundredths, rounded to the nearest
\* hundredth, a tie going to the even one.  size / unit is exact in a float (unit
\* is a power of two) and the format rounds the exact value.
fixed2(size, unit) ==
    LET whole == size \div unit
        rem == size % unit
        f == (100 * rem) \div unit
        left == (100 * rem) % unit
        half == unit \div 2
        up == left > half \/ (left = half /\ f % 2 = 1)
    IN 100 * whole + f + (IF up THEN 1 ELSE 0)

\* A label "<number> <unit>": the number in hundredths when it is printed with
\* two decimals, as it is when it is printed with none.
Label(value, decimals, unit) == [ value |-> value, decimals |-> decimals, unit |-> unit ]

\* Mutant of format_size: the thresholds belong to the smaller unit.
format_size_inclusive(size) ==
    IF size <= Kilo THEN Label(size, 0, "B")
    ELSE IF size <= Kilo * Kilo THEN Label(fixed2(size, Kilo), 2, "KB")
    ELSE IF size <= Kilo * Kilo * Kilo THEN Label(fixed2(size, Kilo * Kilo), 2, "MB")
    ELSE Label(fixed2(size, Kilo * Kilo * Kilo), 2, "GB")

\* format_size, main.py:66-73.
format_size(size) ==
    IF size < Kilo THEN Label(size, 0, "B")
    ELSE IF size < Kilo * Kilo THEN Label(fixed2(size, Kilo), 2, "KB")
    ELSE IF size < Kilo * Kilo * Kilo THEN Label(fixed2(size, Kilo * Kilo), 2, "MB")
    ELSE Label(fixed2(size, Kilo * Kilo * Kilo), 2, "GB")

\* What a call that waits for no selector returns.
returns(value) == [ kind |-> "return", value |-> value, waits |-> << >> ]

\* Mutant of field_content: the placeholder of an empty list has content null.
field_content_null(pg, selectors) ==
    IF selectors # << >>
    THEN get_content_by_selectors(pg, selectors)
    ELSE returns(<< [ selector |-> None, content |-> Null ] >>)

\* get_body_content, main.py:143-152: title_content and date_content.
field_content(pg, selectors) ==
    IF selectors # << >>
    THEN get_content_by_selectors(pg, selectors)
    ELSE returns(<< [ selector |-> None, content |-> << >> ] >>)

\* get_body_content, main.py:138-142: body_content.
body_field_content(pg, body_selectors) ==
    IF body_selectors # << >>
    THEN get_content_by_selectors(pg, body_selectors)
    ELSE returns(<< [ selector |-> None, content |-> pg.content ] >>)

\* get_body_content, main.py:137-154: the three fields in the order body, title,
\* date; an error raised for one field leaves the function at once.
get_body_content(pg, body_selectors, title_selectors, date_selectors) ==
    LET body_content == body_field_content(pg, body_selectors)
        title_content == field_content(pg, title_selectors)
        date_content == field_content(pg, date_selectors)
        NoWaits == << >>
    IN IF body_content.kind = "raise"
       THEN [ kind |-> "raise",
              waits |-> [ body |-> body_content.waits, title |-> NoWaits,
                          date |-> NoWaits ] ]
       ELSE IF title_content.kind = "raise"
       THEN [ kind |-> "raise",
              waits |-> [ body |-> body_content.waits, title |-> title_content.waits,
                          date |-> NoWaits ] ]
       ELSE IF date_content.kind = "raise"
       THEN [ kind |-> "raise",
              waits |-> [ body |-> body_content.waits, title |-> title_content.waits,
                          date |-> date_content.waits ] ]
       ELSE [ kind |-> "return",
              value |-> [ title |-> title_content.value, body |-> body_content.value,
                          date |-> date_content.value ],
              waits |-> [ body |-> body_content.waits, title |-> title_content.waits,
                          date |-> date_content.waits ] ]

\* A <meta> tag by the three attributes get_meta reads, main.py:162-164;
\* get_attribute gives None for an attribute the tag does not have.
MetaTags == [ name : {None, "description", "keywords"},
              property : {None, "og:description", "og:keywords", "og:title"},
              content : {None, "c1", "c2"} ]
MetaTagLists == UNION { [ 1..n -> MetaTags ] : n \in 0..MaxTags }

\* Mutant of meta_step: three independent ifs, a tag sets every key it matches.
meta_step_independent_ifs(meta_info, tag) ==
    LET d1 == IF tag.name = "description" \/ tag.property = "og:description"
              THEN Put(meta_info, "description", tag.content) ELSE meta_info
        d2 == IF tag.name = "keywords" \/ tag.property = "og:keywords"
              THEN Put(d1, "keywords", tag.content) ELSE d1
    IN IF tag.property = "og:title" THEN Put(d2, "title", tag.content) ELSE d2

\* get_meta, main.py:166-173: the if/elif chain run for one tag.
meta_step(meta_info, tag) ==
    IF tag.name = "description" \/ tag.property = "og:description"
    THEN Put(meta_info, "description", tag.content)
    ELSE IF tag.name = "keywords" \/ tag.property = "og:keywords"
    THEN Put(meta_info, "keywords", tag.content)
    ELSE IF tag.property = "og:title"
    THEN Put(meta_info, "title", tag.content)
    ELSE meta_info

\* get_meta, main.py:157-175: the loop over the tags in document order, from
\* tag i on.
RECURSIVE meta_loop(_, _, _)
meta_loop(meta_tags, i, meta_info) ==
    IF i > Len(meta_tags) THEN meta_info
    ELSE meta_loop(meta_tags, i + 1, meta_step(meta_info, meta_tags[i]))

get_meta(meta_tags) == meta_loop(meta_tags, 1, EmptyDict)

\* One element matched by item_selector, by what get_items_content asks of it:
\* the element title_selector finds in it (or none), its <a> descendants in
\* document order, each with its href attribute (None if it has none), and the
\* element date_selector finds in it (or none).
ItemTexts == { t \in Texts : Len(t) <= 1 }
SubElements == { [ found |-> FALSE, text |-> << >> ] }
               \cup { [ found |-> TRUE, text |-> t ] : t \in ItemTexts }
Anchors == [ href : {None, "/a", "/b"} ]
AnchorLists == UNION { [ 1..n -> Anchors ] : n \in 0..MaxLinks }
ItemElements == [ title : SubElements, anchors : AnchorLists, date : SubElements ]
\* The literal of main.py:117 for an item without a date element.
NoDate == << "no-date" >>

\* Mutant of item_links: an item without <a> gets the empty list.
item_links_plain(link_elements) ==
    [ i \in 1..Len(link_elements) |-> link_elements[i].href ]

\* get_items_content, main.py:102-108: item_content["links"].
item_links(link_elements) ==
    IF link_elements # << >>
    THEN [ i \in 1..Len(link_elements) |-> link_elements[i].href ]
    ELSE << "" >>

\* get_items_content, main.py:91-118: the dict built for one item.
item_content(item, title_selector, date_selector) ==
    LET d0 == EmptyDict
        d1 == IF title_selector # None
              THEN Put(d0, "title", IF item.title.found
                                    THEN clean_text(item.title.text) ELSE << >>)
              ELSE d0
        d2 == Put(d1, "links", item_links(item.anchors))
    IN IF date_selector # None
       THEN Put(d2, "date", IF item.date.found
                            THEN clean_text(item.date.text) ELSE NoDate)
       ELSE d2

\* ------------------------------------------------------------------ Init
InitProgram ==
    /\ lifespan = "serving"
    /\ closeIdx = 0
    /\ browser_instances = [ v \in BrowserNames |-> 0 ]
    /\ keys = << >>
    /\ launched = 0
    /\ bstate = [ b \in BrowserIds |-> "unlaunched" ]
    /\ bvariant = [ b \in BrowserIds |-> "chromium" ]
    /\ pc = [ r \in Handlers |-> "idle" ]
    /\ request_data = [ r \in Handlers |-> NoRequest ]
    /\ browser = [ r \in Handlers |-> 0 ]
    /\ page = [ r \in Handlers |-> "none" ]
    /\ page_info = [ r \in Handlers |-> EmptyDict ]
    /\ outcome = [ r \in Handlers |-> "none" ]
    /\ log = [ r \in Handlers |-> << >> ]
    /\ idleRes = [ r \in Handlers |-> "none" ]
    /\ itemsRes = [ r \in Handlers |-> "none" ]
    /\ lastAcquired = [ v \in BrowserNames |-> 0 ]

\* Requests overlap: both handlers serve.
Init ==
    /\ InitProgram /\ handlers = Handlers /\ bodies = ConcurrentBodies
    /\ args = NoCall /\ ret = NoCall

\* Requests are served one at a time: one handler, every request body.
InitSeq ==
    /\ InitProgram /\ handlers = {"h1"} /\ bodies = RequestBody
    /\ args = NoCall /\ ret = NoCall

\* ----------------------------------------------------- shared assignments
Goes(r, to) == pc' = [ pc EXCEPT ![r] = to ]
Logs(r, call) == log' = [ log EXCEPT ![r] = Append(@, call) ]
\* An exception leaves the handler: HTTPException(400) or any other one.
Raises(r, oc) == Goes(r, "done") /\ outcome' = [ outcome EXCEPT ![r] = oc ]

\* Mutant of StoreLaunched: an entry another request stored meanwhile is kept.
StoreLaunched_keep_entry(r, v) ==
    LET id == launched + 1 IN
    /\ launched' = id
    /\ bstate' = [ bstate EXCEPT ![id] = "connected" ]
    /\ bvariant' = [ bvariant EXCEPT ![id] = v ]
    /\ browser_instances' =
          IF browser_instances[v] # 0 /\ pc[r] = "launch" THEN browser_instances
          ELSE [ browser_instances EXCEPT ![v] = id ]
    /\ keys' = IF v \in Range(keys) THEN keys ELSE Append(keys, v)
    /\ browser' = [ browser EXCEPT ![r] = id ]
    /\ lastAcquired' = [ lastAcquired EXCEPT ![v] = id ]

\* use_browser.launch(headless=True) returned: the new browser is stored under
\* the engine name (main.py:199-200 and main.py:182-183) and bound to `browser`.
StoreLaunched(r, v) ==
    LET id == launched + 1 IN
    /\ launched' = id
    /\ bstate' = [ bstate EXCEPT ![id] = "connected" ]
    /\ bvariant' = [ bvariant EXCEPT ![id] = v ]
    /\ browser_instances' = [ browser_instances EXCEPT ![v] = id ]
    /\ keys' = IF v \in Range(keys) THEN keys ELSE Append(keys, v)
    /\ browser' = [ browser EXCEPT ![r] = id ]
    /\ lastAcquired' = [ lastAcquired EXCEPT ![v] = id ]

\* --------------------------------------------------------------- actions
\* POST /capture arrives, main.py:272-278 and get_page_info up to its first
\* await, main.py:187-206: the checks, the pool lookup, the connectivity test.
Capture(r, c) ==
    /\ lifespan = "serving"
    /\ r \in handlers
    /\ c \in bodies
    /\ pc[r] = "idle"
    /\ request_data' = [ request_data EXCEPT ![r] = c ]
    /\ IF capture_rejects(c) \/ ~valid_browser(c.browser)
       THEN Raises(r, "http400") /\ UNCHANGED << browser, lastAcquired >>
       ELSE IF browser_instances[c.browser] = 0
       THEN Goes(r, "launch") /\ UNCHANGED << browser, outcome, lastAcquired >>
       ELSE /\ browser' = [ browser EXCEPT ![r] = browser_instances[c.browser] ]
            /\ IF is_connected(browser_instances[c.browser])
               THEN /\ Goes(r, "new_page")
                    /\ lastAcquired' = [ lastAcquired EXCEPT
                                           ![c.browser] = browser_instances[c.browser] ]
               ELSE Goes(r, "restart") /\ UNCHANGED lastAcquired
            /\ UNCHANGED outcome
    /\ UNCHANGED << scenarioVars, teardownVars, browser_instances, keys, launched,
                    bstate, bvariant, page, page_info, log, idleRes, itemsRes >>

\* main.py:197-204: the launch of a browser the pool had no entry for returns
\* (or raises); the new browser is connected, so main.py:204 lets it pass.
LaunchDone(r, ok) ==
    /\ pc[r] = "launch"
    /\ Logs(r, "launch")
    /\ IF ok
       THEN /\ launched < MaxLaunches
            /\ request_data[r].browser \in Variants
            /\ StoreLaunched(r, request_data[r].browser)
            /\ Goes(r, "new_page")
            /\ UNCHANGED outcome
       ELSE Raises(r, "error") /\ UNCHANGED << poolVars, browser >>
    /\ UNCHANGED << scenarioVars, teardownVars, request_data, page, page_info,
                    idleRes, itemsRes >>

\* restart_browser, main.py:178-184, called at main.py:206: the relaunch returns
\* (or raises); nothing is tested again before new_page.
RestartDone(r, ok) ==
    /\ pc[r] = "restart"
    /\ Logs(r, "launch")
    /\ IF ok
       THEN /\ launched < MaxLaunches
            /\ StoreLaunched(r, request_data[r].browser)
            /\ Goes(r, "new_page")
            /\ UNCHANGED outcome
       ELSE Raises(r, "error") /\ UNCHANGED << poolVars, browser >>
    /\ UNCHANGED << scenarioVars, teardownVars, request_data, page, page_info,
                    idleRes, itemsRes >>

\* The backend reports a browser gone (crash, kill): is_connected() turns False.
Disconnect(b) ==
    /\ lifespan \in {"serving", "closing"}
    /\ b \in 1..launched
    /\ bstate[b] = "connected"
    /\ bstate' = [ bstate EXCEPT ![b] = "disconnected" ]
    /\ lastAcquired' = [ lastAcquired EXCEPT ![bvariant[b]] = 0 ]
    /\ UNCHANGED << scenarioVars, teardownVars, browser_instances, keys, launched,
                    bvariant, pc, request_data, browser, page, page_info, outcome,
                    log, idleRes, itemsRes >>

\* main.py:208: browser.new_page(); a browser that is not connected opens none.
NewPage(r, ok) ==
    /\ pc[r] = "new_page"
    /\ ok => is_connected(browser[r])
    /\ Logs(r, "new_page")
    /\ IF ok
       THEN /\ page' = [ page EXCEPT ![r] = "open" ]
            /\ Goes(r, next_pc("new_page", request_data[r]))
            /\ UNCHANGED outcome
       ELSE Raises(r, "error") /\ UNCHANGED page
    /\ UNCHANGED << scenarioVars, teardownVars, poolVars, request_data, browser,
                    page_info, idleRes, itemsRes >>

\* Mutant of Goto: a failed navigation is answered by a relaunch and a retry.
Goto_relaunch_and_retry(r, ok) ==
    /\ pc[r] = "goto"
    /\ Logs(r, "goto")
    /\ IF ok
       THEN Goes(r, next_pc("goto", request_data[r])) /\ UNCHANGED outcome
       ELSE Goes(r, "restart") /\ UNCHANGED outcome
    /\ UNCHANGED << scenarioVars, teardownVars, poolVars, request_data, browser,
                    page, page_info, idleRes, itemsRes >>

\* Mutant of Goto: the page is closed before a navigation failure propagates.
Goto_close_on_failure(r, ok) ==
    /\ pc[r] = "goto"
    /\ Logs(r, "goto")
    /\ IF ok
       THEN Goes(r, next_pc("goto", request_data[r])) /\ UNCHANGED << outcome, page >>
       ELSE Raises(r, "error") /\ page' = [ page EXCEPT ![r] = "closed" ]
    /\ UNCHANGED << scenarioVars, teardownVars, poolVars, request_data, browser,
                    page_info, idleRes, itemsRes >>

\* main.py:210: page.goto(url); a navigation failure propagates.
Goto(r, ok) ==
    /\ pc[r] = "goto"
    /\ Logs(r, "goto")
    /\ IF ok
       THEN Goes(r, next_pc("goto", request_data[r])) /\ UNCHANGED outcome
       ELSE Raises(r, "error")
    /\ UNCHANGED << scenarioVars, teardownVars, poolVars, request_data, browser,
                    page, page_info, idleRes, itemsRes >>

\* main.py:212: page_info["meta"] = await get_meta(page).
Meta(r, ok) ==
    /\ pc[r] = "meta"
    /\ Logs(r, "meta")
    /\ IF ok
       THEN /\ page_info' = [ page_info EXCEPT ![r] = Put(@, "meta", "meta") ]
            /\ Goes(r, next_pc("meta", request_data[r]))
            /\ UNCHANGED outcome
       ELSE Raises(r, "error") /\ UNCHANGED page_info
    /\ UNCHANGED << scenarioVars, teardownVars, poolVars, request_data, browser,
                    page, idleRes, itemsRes >>

\* main.py:214-222: page.fill(search_input_selector, search_term) inside the try;
\* a None selector makes fill raise.
Fill(r, ok) ==
    /\ pc[r] = "fill"
    /\ ok => request_data[r].search_input_selector # None
    /\ Logs(r, "fill")
    /\ IF ok
       THEN Goes(r, next_pc("fill", request_data[r])) /\ UNCHANGED outcome
       ELSE IF search_try("raise") = "continue"
            THEN Goes(r, next_pc("click", request_data[r])) /\ UNCHANGED outcome
            ELSE Raises(r, "error")
    /\ UNCHANGED << scenarioVars, teardownVars, poolVars, request_data, browser,
                    page, page_info, idleRes, itemsRes >>

\* main.py:220-222: page.click(search_button_selector) inside the same try.
Click(r, ok) ==
    /\ pc[r] = "click"
    /\ Logs(r, "click")
    /\ IF ok
       THEN Goes(r, next_pc("click", request_data[r])) /\ UNCHANGED outcome
       ELSE IF search_try("raise") = "continue"
            THEN Goes(r, next_pc("click", request_data[r])) /\ UNCHANGED outcome
            ELSE Raises(r, "error")
    /\ UNCHANGED << scenarioVars, teardownVars, poolVars, request_data, browser,
                    page, page_info, idleRes, itemsRes >>

\* main.py:224-227: wait_for_network_idle(page, timeout=10) ends, then the mode
\* check of get_page_info.
NetIdle(r, res) ==
    /\ pc[r] = "netidle"
    /\ res \in {"idle", "timeout", "raise"}
    /\ Logs(r, "netidle")
    /\ idleRes' = [ idleRes EXCEPT ![r] = res ]
    /\ IF wait_for_network_idle(res) = "raise"
       THEN Raises(r, "error")
       ELSE IF request_data[r].items_enabled /\ request_data[r].body_enabled
            THEN Raises(r, "http400")
            ELSE Goes(r, next_pc("netidle", request_data[r])) /\ UNCHANGED outcome
    /\ UNCHANGED << scenarioVars, teardownVars, poolVars, request_data, browser,
                    page, page_info, itemsRes >>

\* main.py:229-238: get_items_content ends; a None item_selector makes
\* wait_for_selector raise an error that is no timeout.
Items(r, res, n) ==
    /\ pc[r] = "items"
    /\ res \in {"found", "timeout", "raise"}
    /\ n \in 0..MaxItems
    /\ res # "found" => n = 0
    /\ request_data[r].item_selector = None => res = "raise"
    /\ Logs(r, "items")
    /\ itemsRes' = [ itemsRes EXCEPT ![r] = res ]
    /\ LET got == items_try(get_items_content(res, n)) IN
       IF got.kind = "return"
       THEN /\ page_info' = [ page_info EXCEPT ![r] = Put(@, "items", got.value) ]
            /\ Goes(r, next_pc("items", request_data[r]))
            /\ UNCHANGED outcome
       ELSE Raises(r, "error") /\ UNCHANGED page_info
    /\ UNCHANGED << scenarioVars, teardownVars, poolVars, request_data, browser,
                    page, idleRes >>

\* main.py:240-246: page_info["body"] = await get_body_content(...).
Body(r, ok) ==
    /\ pc[r] = "body"
    /\ Logs(r, "body")
    /\ IF ok
       THEN /\ page_info' = [ page_info EXCEPT ![r] = Put(@, "body", "body") ]
            /\ Goes(r, next_pc("body", request_data[r]))
            /\ UNCHANGED outcome
       ELSE Raises(r, "error") /\ UNCHANGED page_info
    /\ UNCHANGED << scenarioVars, teardownVars, poolVars, request_data, browser,
                    page, idleRes, itemsRes >>

\* main.py:248-249: page_info["screenshot"] = await capture_screenshot(page).
Screenshot(r, ok) ==
    /\ pc[r] = "screenshot"
    /\ Logs(r, "screenshot")
    /\ IF ok
       THEN /\ page_info' = [ page_info EXCEPT ![r] = Put(@, "screenshot", "screenshot") ]
            /\ Goes(r, next_pc("screenshot", request_data[r]))
            /\ UNCHANGED outcome
       ELSE Raises(r, "error") /\ UNCHANGED page_info
    /\ UNCHANGED << scenarioVars, teardownVars, poolVars, request_data, browser,
                    page, idleRes, itemsRes >>

\* main.py:251-252 and main.py:279: page.close(), then the dict is returned.
ClosePage(r, ok) ==
    /\ pc[r] = "close"
    /\ Logs(r, "close")
    /\ IF ok
       THEN /\ page' = [ page EXCEPT ![r] = "closed" ]
            /\ Goes(r, next_pc("close", request_data[r]))
            /\ outcome' = [ outcome EXCEPT ![r] = "ok" ]
       ELSE Raises(r, "error") /\ UNCHANGED page
    /\ UNCHANGED << scenarioVars, teardownVars, poolVars, request_data, browser,
                    page_info, idleRes, itemsRes >>

\* The response (JSONResponse or the error) has been sent: the coroutine and its
\* locals are gone and the handler can serve the next request.
Respond(r) ==
    /\ pc[r] = "done"
    /\ pc' = [ pc EXCEPT ![r] = "idle" ]
    /\ request_data' = [ request_data EXCEPT ![r] = NoRequest ]
    /\ browser' = [ browser EXCEPT ![r] = 0 ]
    /\ page' = [ page EXCEPT ![r] = "none" ]
    /\ page_info' = [ page_info EXCEPT ![r] = EmptyDict ]
    /\ outcome' = [ outcome EXCEPT ![r] = "none" ]
    /\ log' = [ log EXCEPT ![r] = << >> ]
    /\ idleRes' = [ idleRes EXCEPT ![r] = "none" ]
    /\ itemsRes' = [ itemsRes EXCEPT ![r] = "none" ]
    /\ UNCHANGED << scenarioVars, teardownVars, poolVars >>

\* lifespan after its yield, main.py:264-265: the server has stopped serving
\* (no request is in flight) and the loop over the pool's values starts.
Shutdown ==
    /\ lifespan = "serving"
    /\ \A r \in Handlers : pc[r] = "idle"
    /\ lifespan' = IF Len(keys) = 0 THEN "stopped" ELSE "closing"
    /\ closeIdx' = 1
    /\ UNCHANGED << scenarioVars, poolVars, pc, request_data, browser, page,
                    page_info, outcome, log, idleRes, itemsRes >>

\* main.py:265-266: one `await browser.close()` of the loop returns or raises;
\* nothing catches the exception, so it ends the loop and leaves lifespan.
CloseBrowser(ok) ==
    /\ lifespan = "closing"
    /\ closeIdx <= Len(keys)
    /\ IF ok
       THEN /\ bstate' = [ bstate EXCEPT ![browser_instances[keys[closeIdx]]] = "closed" ]
            /\ closeIdx' = closeIdx + 1
            /\ lifespan' = IF closeIdx = Len(keys) THEN "stopped" ELSE "closing"
       ELSE /\ lifespan' = "failed"
            /\ UNCHANGED << bstate, closeIdx >>
    /\ UNCHANGED << scenarioVars, browser_instances, keys, launched, bvariant, pc,
                    request_data, browser, page, page_info, outcome, log, idleRes,
                    itemsRes, lastAcquired >>

Next ==
    \/ \E r \in Handlers, c \in bodies : Capture(r, c)
    \/ \E r \in Handlers, ok \in BOOLEAN : LaunchDone(r, ok)
    \/ \E r \in Handlers, ok \in BOOLEAN : RestartDone(r, ok)
    \/ \E b \in BrowserIds : Disconnect(b)
    \/ \E r \in Handlers, ok \in BOOLEAN : NewPage(r, ok)
    \/ \E r \in Handlers, ok \in BOOLEAN : Goto(r, ok)
    \/ \E r \in Handlers, ok \in BOOLEAN : Meta(r, ok)
    \/ \E r \in Handlers, ok \in BOOLEAN : Fill(r, ok)
    \/ \E r \in Handlers, ok \in BOOLEAN : Click(r, ok)
    \/ \E r \in Handlers, res \in {"idle", "timeout", "raise"} : NetIdle(r, res)
    \/ \E r \in Handlers, res \in {"found", "timeout", "raise"}, n \in 0..MaxItems :
          Items(r, res, n)
    \/ \E r \in Handlers, ok \in BOOLEAN : Body(r, ok)
    \/ \E r \in Handlers, ok \in BOOLEAN : Screenshot(r, ok)
    \/ \E r \in Handlers, ok \in BOOLEAN : ClosePage(r, ok)
    \/ \E r \in Handlers : Respond(r)
    \/ Shutdown
    \/ \E ok \in BOOLEAN : CloseBrowser(ok)

\* Concurrent serving, and serving one request at a time.
Spec == Init /\ [][Next]_vars
SpecSeq == InitSeq /\ [][Next]_vars

\* Concurrent serving of requests that all name one engine: a detail-page
\* scrape with search, and a list-page scrape with screenshot.
RaceBodies ==
    { c \in RequestBody :
        /\ c.url # "" /\ c.browser = "chromium"
        /\ \/ /\ c.search /\ c.search_input_selector # None
              /\ c.body_enabled /\ ~c.items_enabled /\ ~c.screenshot
           \/ /\ ~c.search /\ ~c.body_enabled
              /\ c.items_enabled /\ c.item_selector # None /\ c.screenshot }
InitRace ==
    /\ InitProgram /\ handlers = Handlers /\ bodies = RaceBodies
    /\ args = NoCall /\ ret = NoCall
SpecRace == InitRace /\ [][Next]_vars

\* ------------------------------------------------------------- scheduling
\* The bounds the code hands to its waits: seconds for asyncio.wait_for at
\* main.py:224, milliseconds for wait_for_selector at main.py:87 and main.py:127.
NetworkIdleTimeout == 10
ItemsTimeout == 10000
SelectorTimeout == 5000

\* Mutant of bounded_wait: no wait has a bound.
bounded_wait_never(timeout) == FALSE

\* A wait given a positive bound ends when the bound has passed, whatever the
\* page does: asyncio.wait_for(..., timeout) at main.py:61 and
\* wait_for_selector(..., timeout=...) at main.py:87 and main.py:127.
bounded_wait(timeout) == timeout > 0

\* The awaited call handler r is suspended at ends.  A call that waits for
\* nothing returns or raises (the backend answers); a wait ends because it is
\* bounded.
Ends(r) ==
    \/ \E ok \in BOOLEAN : LaunchDone(r, ok)
    \/ \E ok \in BOOLEAN : RestartDone(r, ok)
    \/ \E ok \in BOOLEAN : NewPage(r, ok)
    \/ \E ok \in BOOLEAN : Goto(r, ok)
    \/ \E ok \in BOOLEAN : Meta(r, ok)
    \/ \E ok \in BOOLEAN : Fill(r, ok)
    \/ \E ok \in BOOLEAN : Click(r, ok)
    \/ /\ bounded_wait(NetworkIdleTimeout)
       /\ \E res \in {"idle", "timeout", "raise"} : NetIdle(r, res)
    \/ /\ bounded_wait(ItemsTimeout)
       /\ \E res \in {"found", "timeout", "raise"}, n \in 0..MaxItems : Items(r, res, n)
    \/ /\ bounded_wait(SelectorTimeout)
       /\ \E ok \in BOOLEAN : Body(r, ok)
    \/ \E ok \in BOOLEAN : Screenshot(r, ok)
    \/ \E ok \in BOOLEAN : ClosePage(r, ok)

\* The event loop runs a coroutine whose awaited call has ended.
Fairness == \A r \in Handlers : WF_vars(Ends(r))

\* Serving one request at a time, every awaited call ending.  The requests
\* name one accepted engine or the engine that is not accepted.
LiveBodies == { c \in RequestBody : c.browser \in {"chromium", "opera"} }
InitLive ==
    /\ InitProgram /\ handlers = {"h1"} /\ bodies = LiveBodies
    /\ args = NoCall /\ ret = NoCall
SpecLive == InitLive /\ [][Next]_vars /\ Fairness

\* ------------------------------------------- the helper functions, called
\* A helper is called on its own: no request is served.
InitHelper == InitProgram /\ handlers = {} /\ bodies = {} /\ ret = Pending
programVars == << handlers, bodies, lifespan, closeIdx, browser_instances, keys,
                  launched, bstate, bvariant, pc, request_data, browser, page,
                  page_info, outcome, log, idleRes, itemsRes, lastAcquired >>

\* get_content_by_selectors(page, selectors) for every page and selector list.
InitSelectors ==
    /\ InitHelper
    /\ args \in [ fn : {"get_content_by_selectors"}, page : Pages,
                   selectors : SelectorLists ]
CallGetContentBySelectors ==
    /\ args.fn = "get_content_by_selectors"
    /\ ret = Pending
    /\ ret' = get_content_by_selectors(args.page, args.selectors)
    /\ UNCHANGED << programVars, args >>
NextSelectors == CallGetContentBySelectors
SpecSelectors == InitSelectors /\ [][NextSelectors]_vars

\* ---------------------------------------------------------------- claims
Conflicting(c) == c.items_enabled /\ c.body_enabled

\* C1: a request with items_config.enabled and body_config.enabled both true
\* ends with HTTP 400 at once: it is never suspended at a backend call, makes no
\* backend call (no launch, no new page, no navigation), holds no browser and no
\* page, whatever the pool holds.
C1_ModeConflictRejected ==
    \A r \in Handlers :
        (pc[r] # "idle" /\ Conflicting(request_data[r])) =>
            /\ pc[r] = "done"
            /\ outcome[r] = "http400"
            /\ log[r] = << >>
            /\ browser[r] = 0
            /\ page[r] = "none"

\* C1 witness: a conflicting request with a URL was rejected while the pool held
\* a launched browser.
C1_Witness ==
    \E r \in Handlers :
        /\ pc[r] = "done" /\ Conflicting(request_data[r])
        /\ request_data[r].url # "" /\ outcome[r] = "http400"
        /\ launched >= 1

\* C2 (as stated): an acquisition that completes while the latest acquisition of
\* the same engine used browser b, with no disconnection of that engine since,
\* uses b and launches nothing; an acquisition that finds the stored instance
\* disconnected launches a new, distinct instance, stores it under the same key
\* and uses it.
C2_SameInstanceUnlessDisconnected ==
    [][ \A r \in Handlers :
          (pc[r] # "new_page" /\ pc'[r] = "new_page") =>
             LET v == request_data'[r].browser IN
             /\ lastAcquired[v] # 0 =>
                   (browser'[r] = lastAcquired[v] /\ launched' = launched)
             /\ pc[r] = "restart" =>
                   /\ launched' = launched + 1
                   /\ browser'[r] = launched'
                   /\ browser'[r] # browser[r]
                   /\ browser_instances'[v] = browser'[r] ]_vars

\* C3 (as stated): at most one launched, connected, not closed browser per
\* engine variant, in every reachable state.
Live(v) == { b \in 1..launched : bvariant[b] = v /\ bstate[b] = "connected" }
C3_OneLiveBrowserPerVariant == \A v \in Variants : Cardinality(Live(v)) <= 1

\* C4 (as stated): no finished request leaves its page open.
C4_PageClosedWhenRequestEnds == \A r \in Handlers : pc[r] = "done" => page[r] # "open"

\* The pipeline calls of a request's log, in order.
PipelineCalls == {"goto", "meta", "fill", "click", "netidle", "items", "body",
                  "screenshot", "close"}
Ordered(l, rank(_)) ==
    \A i, j \in DOMAIN l :
        (i < j /\ l[i] \in PipelineCalls /\ l[j] \in PipelineCalls) => rank(l[i]) < rank(l[j])
\* navigate, stabilize, search, meta, items-or-body, screenshot, dispose
ClaimedRank(call) ==
    CASE call = "goto" -> 1 [] call = "netidle" -> 2 [] call = "fill" -> 3
      [] call = "click" -> 4 [] call = "meta" -> 5 [] call = "items" -> 6
      [] call = "body" -> 7 [] call = "screenshot" -> 8 [] call = "close" -> 9
\* navigate, meta, search, stabilize, items-or-body, screenshot, dispose
CodeRank(call) ==
    CASE call = "goto" -> 1 [] call = "meta" -> 2 [] call = "fill" -> 3
      [] call = "click" -> 4 [] call = "netidle" -> 5 [] call = "items" -> 6
      [] call = "body" -> 7 [] call = "screenshot" -> 8 [] call = "close" -> 9

\* C5 (as stated): the calls of a request occur in the order navigate, stabilize,
\* search, metadata, items-or-body, screenshot, dispose.
C5_ClaimedOrder == \A r \in Handlers : Ordered(log[r], ClaimedRank)

\* C5 (amended): the calls of a request occur strictly in the order navigate,
\* metadata, search (fill, click), stabilize, items-or-body, screenshot, dispose,
\* one at a time: metadata is extracted right after navigation, before the
\* search interaction and the network-idle wait.
C5_CodeOrder ==
    \A r \in Handlers :
        /\ Ordered(log[r], CodeRank)
        /\ \A i \in DOMAIN log[r] : log[r][i] \in PipelineCalls \cup {"launch", "new_page"}
        /\ (pc[r] \in PipelineCalls /\ log[r] # << >>) =>
               (log[r][Len(log[r])] \in PipelineCalls =>
                    CodeRank(log[r][Len(log[r])]) < CodeRank(pc[r]))

\* C5 witness: a finished request that searched, extracted items and took a
\* screenshot made all its calls in the code's order.
C5_Witness ==
    \E r \in Handlers :
        /\ pc[r] = "done" /\ outcome[r] = "ok"
        /\ log[r] = << "launch", "new_page", "goto", "meta", "fill", "click",
                       "netidle", "items", "screenshot", "close" >>

\* C6: a request whose browser is none of chromium, firefox, webkit ends with
\* HTTP 400 at once, with no backend call, no browser and no page, and the pool
\* map never gets a key outside the three engines.
C6_InvalidBrowserRejected ==
    /\ \A r \in Handlers :
          (pc[r] # "idle" /\ request_data[r].browser \notin Variants) =>
              /\ pc[r] = "done"
              /\ outcome[r] = "http400"
              /\ log[r] = << >>
              /\ browser[r] = 0
              /\ page[r] = "none"
    /\ \A v \in BrowserNames \ Variants : browser_instances[v] = 0
    /\ Range(keys) \subseteq Variants

\* C6 witness: a request with a URL, one mode at most and an unknown engine was
\* rejected.
C6_Witness ==
    \E r \in Handlers :
        /\ pc[r] = "done" /\ outcome[r] = "http400"
        /\ request_data[r].browser \notin Variants
        /\ request_data[r].url # "" /\ ~Conflicting(request_data[r])

\* C7 (as stated): once teardown has ended, every browser in the pool is closed,
\* and teardown never ends with an escaped exception.
C7_TeardownClosesAll ==
    /\ lifespan # "failed"
    /\ lifespan = "stopped" =>
          \A v \in BrowserNames :
              browser_instances[v] # 0 => bstate[browser_instances[v]] = "closed"

\* C8: a network-idle wait that times out leaves the request exactly where a
\* wait that succeeded leaves it: no failure, the page still open, page_info
\* untouched, and the next step is the one the configuration selects.
C8_IdleTimeoutContinues ==
    [][ \A r \in Handlers :
          (pc[r] = "netidle" /\ pc'[r] # "netidle" /\ idleRes'[r] = "timeout") =>
             /\ outcome'[r] = "none"
             /\ pc'[r] = after_idle(request_data[r])
             /\ page'[r] = "open"
             /\ page_info'[r] = page_info[r] ]_vars

\* C8 witness: a request whose network-idle wait timed out returned its PageInfo.
C8_Witness ==
    \E r \in Handlers : idleRes[r] = "timeout" /\ pc[r] = "done" /\ outcome[r] = "ok"

\* C9: with search enabled, whatever fill or click does, the request does not
\* fail at that step and goes on (to click, or to the network-idle wait); with
\* search disabled neither fill nor click is called.
C9_SearchFailuresCaught ==
    /\ [](\A r \in Handlers :
            ~request_data[r].search =>
                ("fill" \notin Range(log[r]) /\ "click" \notin Range(log[r])
                 /\ pc[r] \notin {"fill", "click"}))
    /\ [][ \A r \in Handlers :
             (pc[r] \in {"fill", "click"} /\ pc'[r] # pc[r]) =>
                /\ outcome'[r] = "none"
                /\ pc'[r] \in {"click", "netidle"}
                /\ page'[r] = "open" ]_vars

\* C9 witness: a request with search enabled and no input selector (fill raised)
\* returned its PageInfo.
C9_Witness ==
    \E r \in Handlers :
        /\ request_data[r].search /\ request_data[r].search_input_selector = None
        /\ "fill" \in Range(log[r]) /\ "click" \notin Range(log[r])
        /\ pc[r] = "done" /\ outcome[r] = "ok"

\* C10: when the wait for item_selector times out, the request does not fail at
\* that step and page_info["items"] is the empty list, also in the PageInfo
\* returned.
C10_ItemsTimeoutGivesEmpty ==
    /\ [](\A r \in Handlers :
            (itemsRes[r] = "timeout" /\ outcome[r] \in {"none", "ok"}) =>
                ("items" \in DOMAIN page_info[r] /\ page_info[r]["items"] = << >>))
    /\ [][ \A r \in Handlers :
             (pc[r] = "items" /\ pc'[r] # "items" /\ itemsRes'[r] = "timeout") =>
                /\ outcome'[r] = "none"
                /\ pc'[r] = after_items(request_data[r]) ]_vars

\* C10 witness: a request whose item_selector never matched returned a PageInfo
\* with items = [].
C10_Witness ==
    \E r \in Handlers :
        /\ itemsRes[r] = "timeout" /\ pc[r] = "done" /\ outcome[r] = "ok"
        /\ page_info[r]["items"] = << >>

\* get_meta(page) for every list of <meta> tags.
InitMeta ==
    /\ InitHelper
    /\ args \in [ fn : {"get_meta"}, meta_tags : MetaTagLists ]
CallGetMeta ==
    /\ args.fn = "get_meta"
    /\ ret = Pending
    /\ ret' = [ kind |-> "return", value |-> get_meta(args.meta_tags) ]
    /\ UNCHANGED << programVars, args >>
NextMeta == CallGetMeta
SpecMeta == InitMeta /\ [][NextMeta]_vars

\* One turn of the loop of get_items_content for every item element and every
\* choice of the optional selectors.
InitItem ==
    /\ InitHelper
    /\ args \in [ fn : {"item_content"}, item : ItemElements,
                   title_selector : {None, ".t"}, date_selector : {None, ".date"} ]
CallItemContent ==
    /\ args.fn = "item_content"
    /\ ret = Pending
    /\ ret' = [ kind |-> "return",
                value |-> item_content(args.item, args.title_selector,
                                       args.date_selector) ]
    /\ UNCHANGED << programVars, args >>
NextItem == CallItemContent
SpecItem == InitItem /\ [][NextItem]_vars

\* get_body_content for every page and every choice of the three lists of
\* BodyConfig, each with at most one selector.
BodyLists == { l \in SelectorLists : Len(l) <= 1 }
InitBody ==
    /\ InitHelper
    /\ args \in [ fn : {"get_body_content"}, page : Pages, body_selectors : BodyLists,
                   title_selectors : BodyLists, date_selectors : BodyLists ]
CallGetBodyContent ==
    /\ args.fn = "get_body_content"
    /\ ret = Pending
    /\ ret' = get_body_content(args.page, args.body_selectors, args.title_selectors,
                               args.date_selectors)
    /\ UNCHANGED << programVars, args >>
NextBody == CallGetBodyContent
SpecBody == InitBody /\ [][NextBody]_vars

\* ----------------------------------------------- claims on the pool, again
Count(l, x) == Cardinality({ i \in DOMAIN l : l[i] = x })

\* C15: a request relaunches a browser at most once, and only in answer to the
\* connectivity test of its acquisition: after the relaunch it goes on to
\* new_page or fails, it never launches again and never navigates twice, and a
\* new_page or goto that fails ends the request with an error.
C15_AtMostOneRelaunch ==
    [][ \A r \in Handlers :
          /\ (pc'[r] = "restart" /\ pc[r] # "restart") => pc[r] = "idle"
          /\ (pc[r] = "restart" /\ pc'[r] # "restart") =>
                \/ pc'[r] = "new_page"
                \/ pc'[r] = "done" /\ outcome'[r] = "error"
          /\ Count(log'[r], "launch") <= 1
          /\ Count(log'[r], "goto") <= 1
          /\ (pc[r] \in {"new_page", "goto"} /\ pc'[r] # pc[r]) =>
                \/ pc'[r] = next_pc(pc[r], request_data[r])
                \/ pc'[r] = "done" /\ outcome'[r] = "error"
      ]_vars

\* A request found its browser disconnected and relaunched it; the new browser
\* disconnected too, new_page failed, and the request ended with an error after
\* one launch and no navigation.
C15_Witness ==
    \E r \in Handlers :
        /\ pc[r] = "done" /\ outcome[r] = "error"
        /\ log[r] = << "launch", "new_page" >>
        /\ launched = 2
        /\ bvariant[1] = bvariant[2]
        /\ browser[r] = 2
        /\ bstate[2] = "disconnected"

\* C18: the launch of a browser for an engine without a pool entry is a race.
\* Every launch that returns stores its browser as the entry of its engine,
\* also when another request has stored one since the lookup; the browser that
\* was the entry is not closed and stays the browser of the requests that hold
\* it, and the pool no longer refers to it.
C18_LastLaunchOverwrites ==
    [][ \A r \in Handlers :
          (pc[r] = "launch" /\ pc'[r] = "new_page") =>
              LET v == request_data[r].browser
                  old == browser_instances[v]
              IN /\ launched' = launched + 1
                 /\ browser_instances'[v] = launched'
                 /\ browser'[r] = launched'
                 /\ old # 0 =>
                       /\ bstate'[old] = bstate[old]
                       /\ \A w \in Variants : browser_instances'[w] # old
                       /\ \A r2 \in Handlers \ {r} : browser'[r2] = browser[r2]
      ]_vars

\* Two requests for one engine both launched: both browsers are connected,
\* the pool entry is the browser launched last, and the request that launched
\* first works on a page of its browser, which the pool does not refer to.
C18_Witness ==
    \E r1, r2 \in Handlers :
        /\ r1 # r2
        /\ request_data[r1].browser = request_data[r2].browser
        /\ log[r1] # << >> /\ log[r1][1] = "launch"
        /\ log[r2] # << >> /\ log[r2][1] = "launch"
        /\ browser[r1] = 1 /\ browser[r2] = 2
        /\ bstate[1] = "connected" /\ bstate[2] = "connected"
        /\ browser_instances[request_data[r1].browser] = 2
        /\ \A w \in Variants : browser_instances[w] # 1
        /\ page[r1] = "open"
        /\ pc[r1] \notin {"idle", "done"}

\* C19: the page of a request is closed if and only if the request returns
\* its dict; page.close() is then called once and is the last backend call of
\* the request.  A request that ends with an exception after it opened its page
\* leaves the page open.
C19_PageClosedIffCompleted ==
    \A r \in Handlers :
        /\ page[r] = "closed" <=> outcome[r] = "ok"
        /\ Count(log[r], "close") <= 1
        /\ outcome[r] = "ok" =>
              /\ pc[r] = "done"
              /\ Count(log[r], "close") = 1
              /\ log[r][Len(log[r])] = "close"
        /\ (pc[r] = "done" /\ outcome[r] # "ok" /\ page[r] # "none") => page[r] = "open"

\* A request whose screenshot failed ended with an error and its page open.
C19_Witness ==
    \E r \in Handlers :
        /\ pc[r] = "done" /\ outcome[r] = "error"
        /\ page[r] = "open"
        /\ log[r] # << >> /\ log[r][Len(log[r])] = "screenshot"

\* Every browser launched and still connected is the pool entry of its engine,
\* and the pool has entries for accepted engines only.
PoolHoldsLiveBrowsers ==
    /\ \A b \in 1..launched :
          bstate[b] = "connected" => browser_instances[bvariant[b]] = b
    /\ \A v \in BrowserNames : browser_instances[v] # 0 => v \in Variants
    /\ Range(keys) \subseteq Variants
\* No step removes a pool entry.
EntriesStay ==
    /\ \A v \in BrowserNames : browser_instances[v] # 0 => browser_instances'[v] # 0
    /\ \A i \in DOMAIN keys : i \in DOMAIN keys' /\ keys'[i] = keys[i]
\* The teardown is over and no launched browser is connected.
TeardownLeavesNoneConnected ==
    lifespan \in {"stopped", "failed"} =>
        \A b \in 1..launched : bstate[b] # "connected"

\* C20: with requests served one at a time, every browser launched and still
\* connected is the current pool entry of its engine, the pool's keys are
\* accepted engine names, no entry is ever removed, and so the teardown closes
\* every browser that is still connected.
C20_PoolReachesEveryLiveBrowser ==
    /\ []PoolHoldsLiveBrowsers
    /\ [][EntriesStay]_vars
    /\ []TeardownLeavesNoneConnected

\* C16: every request ends, with the PageInfo dict or with a failure, provided
\* the calls that wait for nothing return: the network-idle wait, the wait for
\* item_selector and the waits for the body, title and date selectors each
\* end when their bound has passed.
C16_RequestTerminates ==
    \A r \in Handlers :
        (pc[r] # "idle") ~>
            (pc[r] = "done" /\ outcome[r] \in {"ok", "http400", "error"})

\* A request whose network-idle wait and whose wait for item_selector both
\* ran into their bound has returned its dict.
C16_Witness ==
    \E r \in Handlers :
        /\ pc[r] = "done" /\ outcome[r] = "ok"
        /\ idleRes[r] = "timeout"
        /\ itemsRes[r] = "timeout"

\* format_size(len(screenshot)) for the byte counts around every threshold,
\* the ones of the examples and some whose quotient lies halfway between two
\* hundredths.
Around(n) == (n - MaxDelta)..(n + MaxDelta)
Sizes ==
    (0..MaxDelta) \cup Around(Kilo) \cup Around(Kilo * Kilo)
    \cup Around(Kilo * Kilo * Kilo)
    \cup {512, 2 * Kilo, 5 * Kilo * Kilo, Kilo + 128, Kilo + 384,
          Kilo * Kilo + 128 * Kilo}
InitSize ==
    /\ InitHelper
    /\ args \in [ fn : {"format_size"}, size : Sizes ]
CallFormatSize ==
    /\ args.fn = "format_size"
    /\ ret = Pending
    /\ ret' = [ kind |-> "return", value |-> format_size(args.size) ]
    /\ UNCHANGED << programVars, args >>
NextSize == CallFormatSize
SpecSize == InitSize /\ [][NextSize]_vars

\* ------------------------------------------- claims on the helper functions
\* A text str.strip() leaves alone: no whitespace at either end.
Trimmed(t) ==
    /\ t # Null
    /\ t # << >> => (t[1] \notin Whitespace /\ t[Len(t)] \notin Whitespace)

EntriesOf(value, selector) == { i \in DOMAIN value : value[i].selector = selector }

\* C11 as stated: when get_content_by_selectors returns for a non-empty list,
\* every selector of the list whose wait timed out has an entry with content
\* null, every selector whose wait returned has an entry whose content is a
\* non-null trimmed text, and an entry has content null only if the wait of its
\* selector timed out.
C11_EntryForEverySelector ==
    (args.fn = "get_content_by_selectors" /\ ret # Pending /\ ret.kind = "return"
       /\ args.selectors # << >>) =>
    /\ \A i \in DOMAIN args.selectors :
          LET selector == args.selectors[i]
              out == args.page.dom[selector]
          IN /\ out.wait = "timeout" =>
                  \E j \in EntriesOf(ret.value, selector) : ret.value[j].content = Null
             /\ out.wait = "found" =>
                  \E j \in EntriesOf(ret.value, selector) : Trimmed(ret.value[j].content)
    /\ \A j \in DOMAIN ret.value :
          ret.value[j].content = Null =>
              args.page.dom[ret.value[j].selector].wait = "timeout"

\* C11 amended: as C11, but a selector whose wait returned has its entry (with
\* the cleaned text of the element) only if query_selector then finds the
\* element; if query_selector finds none, the result has no entry for it.
C11_EntryUnlessElementGone ==
    (args.fn = "get_content_by_selectors" /\ ret # Pending /\ ret.kind = "return"
       /\ args.selectors # << >>) =>
    /\ \A i \in DOMAIN args.selectors :
          LET selector == args.selectors[i]
              out == args.page.dom[selector]
              entries == EntriesOf(ret.value, selector)
          IN /\ out.wait = "timeout" =>
                  /\ entries # {}
                  /\ \A j \in entries : ret.value[j].content = Null
             /\ (out.wait = "found" /\ out.element) =>
                  /\ entries # {}
                  /\ \A j \in entries :
                        /\ Trimmed(ret.value[j].content)
                        /\ "\n" \notin Range(ret.value[j].content)
                        /\ Len(ret.value[j].content) <= Len(out.text)
             /\ (out.wait = "found" /\ ~out.element) => entries = {}
    /\ \A j \in DOMAIN ret.value :
          ret.value[j].content = Null =>
              args.page.dom[ret.value[j].selector].wait = "timeout"

\* A list of two selectors: the first timed out, the second matched an element
\* whose text had whitespace to remove.
C11_Witness ==
    /\ args.fn = "get_content_by_selectors" /\ ret # Pending /\ ret.kind = "return"
    /\ Len(args.selectors) = 2
    /\ args.page.dom[args.selectors[1]].wait = "timeout"
    /\ args.page.dom[args.selectors[2]].element
    /\ args.page.dom[args.selectors[2]].text = << "\n", "a" >>
    /\ ret.value = << [ selector |-> args.selectors[1], content |-> Null ],
                      [ selector |-> args.selectors[2], content |-> << "a" >> ] >>

MetaKeys == << "description", "keywords", "title" >>
\* The tag matches the key by its name or its property attribute.
Matches(tag, key) ==
    CASE key = "description" -> tag.name = "description" \/ tag.property = "og:description"
      [] key = "keywords" -> tag.name = "keywords" \/ tag.property = "og:keywords"
      [] key = "title" -> tag.property = "og:title"
\* The tag counts for the key: it matches it and matches no key before it.
CountsFor(tag, k) ==
    /\ Matches(tag, MetaKeys[k])
    /\ \A j \in 1..(k - 1) : ~Matches(tag, MetaKeys[j])
Last(S) == CHOOSE i \in S : \A j \in S : j <= i

\* C12 as stated: each meta field is the content of the last tag, in document
\* order, that matches its key, also when that tag matches another key too;
\* the key is absent when no tag matches it.
C12_LastMatchingTagWins ==
    (args.fn = "get_meta" /\ ret # Pending) =>
    \A k \in DOMAIN MetaKeys :
        LET matching == { i \in DOMAIN args.meta_tags :
                            Matches(args.meta_tags[i], MetaKeys[k]) }
        IN IF matching = {} THEN MetaKeys[k] \notin DOMAIN ret.value
           ELSE /\ MetaKeys[k] \in DOMAIN ret.value
                /\ ret.value[MetaKeys[k]] = args.meta_tags[Last(matching)].content

\* C12 amended: a tag counts for one key only, the first it matches in the
\* order description, keywords, title; each meta field is the content of the
\* last tag that counts for its key, and the key is absent when no tag does.
C12_LastCountingTagWins ==
    (args.fn = "get_meta" /\ ret # Pending) =>
    \A k \in DOMAIN MetaKeys :
        LET counting == { i \in DOMAIN args.meta_tags : CountsFor(args.meta_tags[i], k) }
        IN IF counting = {} THEN MetaKeys[k] \notin DOMAIN ret.value
           ELSE /\ MetaKeys[k] \in DOMAIN ret.value
                /\ ret.value[MetaKeys[k]] = args.meta_tags[Last(counting)].content

\* Two tags: a plain keywords tag, then a tag that matches description by its
\* name and keywords by its property; the second sets description only.
C12_Witness ==
    /\ args.fn = "get_meta" /\ ret # Pending
    /\ Len(args.meta_tags) = 2
    /\ args.meta_tags[1] = [ name |-> "keywords", property |-> None, content |-> "c1" ]
    /\ args.meta_tags[2] = [ name |-> "description", property |-> "og:keywords",
                             content |-> "c2" ]
    /\ DOMAIN ret.value = {"description", "keywords"}
    /\ ret.value["description"] = "c2"
    /\ ret.value["keywords"] = "c1"

\* C13: the dict of every item has a non-empty links list: [""] for an item
\* without <a> descendants, otherwise the href values of its <a> descendants,
\* as many as there are and in document order.
C13_LinksNeverEmpty ==
    (args.fn = "item_content" /\ ret # Pending) =>
    /\ "links" \in DOMAIN ret.value
    /\ ret.value["links"] # << >>
    /\ args.item.anchors = << >> => ret.value["links"] = << "" >>
    /\ args.item.anchors # << >> =>
          /\ Len(ret.value["links"]) = Len(args.item.anchors)
          /\ \A i \in DOMAIN args.item.anchors :
                ret.value["links"][i] = args.item.anchors[i].href

\* An item without <a> descendants was turned into a dict with links [""].
C13_Witness ==
    /\ args.fn = "item_content" /\ ret # Pending
    /\ args.item.anchors = << >>
    /\ ret.value["links"] = << "" >>

\* C14: with an empty body_selectors list get_body_content waits for no
\* selector for the body field and, when it returns, the body field is one entry
\* with selector null and the whole markup of the page as content; with an empty
\* title_selectors (date_selectors) list the title (date) field is one entry with
\* selector null and the empty string, not null, as content.
C14_EmptyListPlaceholders ==
    (args.fn = "get_body_content" /\ ret # Pending) =>
    /\ args.body_selectors = << >> =>
          /\ ret.waits.body = << >>
          /\ ret.kind = "return" =>
                ret.value.body = << [ selector |-> None, content |-> args.page.content ] >>
    /\ (args.title_selectors = << >> /\ ret.kind = "return") =>
          /\ ret.value.title = << [ selector |-> None, content |-> << >> ] >>
          /\ ret.value.title[1].content # Null
    /\ (args.date_selectors = << >> /\ ret.kind = "return") =>
          /\ ret.value.date = << [ selector |-> None, content |-> << >> ] >>
          /\ ret.value.date[1].content # Null

\* get_body_content returned for three empty lists.
C14_Witness ==
    /\ args.fn = "get_body_content" /\ ret # Pending /\ ret.kind = "return"
    /\ args.body_selectors = << >>
    /\ args.title_selectors = << >>
    /\ args.date_selectors = << >>
    /\ ret.value.body[1].content = Markup
    /\ ret.value.title[1].content = << >>

\* c hundredths is size / unit with two decimals: no number of hundredths is
\* nearer to the quotient.
TwoDecimals(c, size, unit) ==
    LET rem == size % unit
        f == c - 100 * (size \div unit)
        half == unit \div 2
        q == (100 * rem) \div half
        left == (100 * rem) % half
    IN /\ f \in 0..100
       /\ 2 * f - 1 <= q
       /\ q < 2 * f + 1 \/ (q = 2 * f + 1 /\ left = 0)

\* C17: the size label of n bytes is "n B" below 1024, n / 1024 with two
\* decimals and KB from 1024 to below 1024^2, n / 1024^2 with two decimals and MB
\* from there to below 1024^3, and n / 1024^3 with two decimals and GB from
\* there on; 512 gives "512 B", 2048 "2.00 KB" and 5 * 1024^2 "5.00 MB".
C17_SizeLabel ==
    (args.fn = "format_size" /\ ret # Pending) =>
    LET n == args.size
        label == ret.value
    IN /\ n < 1024 => label = Label(n, 0, "B")
       /\ (1024 <= n /\ n < 1048576) =>
             /\ label.unit = "KB" /\ label.decimals = 2
             /\ TwoDecimals(label.value, n, 1024)
       /\ (1048576 <= n /\ n < 1073741824) =>
             /\ label.unit = "MB" /\ label.decimals = 2
             /\ TwoDecimals(label.value, n, 1048576)
       /\ 1073741824 <= n =>
             /\ label.unit = "GB" /\ label.decimals = 2
             /\ TwoDecimals(label.value, n, 1073741824)
       /\ n = 512 => label = Label(512, 0, "B")
       /\ n = 2048 => label = Label(200, 2, "KB")
       /\ n = 5242880 => label = Label(500, 2, "MB")

\* format_size was called on exactly 1024^3 bytes and gave "1.00 GB".
C17_Witness ==
    /\ args.fn = "format_size" /\ ret # Pending
    /\ args.size = 1073741824
    /\ ret.value = Label(100, 2, "GB")

====
